---- MODULE Spec2Model ----
(***************************************************************************)
(* BALROG agents: NaiveAgent, FewShotAgent and RobustCoTAgent.             *)
(*                                                                         *)
(* One agent object is modelled per behaviour (the variable `agent` says   *)
(* which class it is).  Text is modelled as a sequence of tokens: a token  *)
(* is either one character or one of the fixed multi-character strings of  *)
(* the code (markers, tags, instruction texts); concatenation of strings   *)
(* is concatenation of token sequences.                                    *)
(***************************************************************************)
EXTENDS Integers, Sequences, FiniteSets, TLC

VARIABLES
    agent,            \* which class the agent object is
    max_icl_history,  \* FewShotAgent.max_icl_history
    icl_events,       \* FewShotAgent.icl_events
    icl_episodes,     \* FewShotAgent.icl_episodes
    cached_icl,       \* FewShotAgent.cached_icl
    pc,               \* position of the current call (act / cache_icl)
    error,            \* the exception a call propagated to its caller
    calls,            \* collaborator calls made by the current call, in order
    icl_prompt,       \* value returned by get_icl_prompt in the current call
    builder_prompt,   \* value returned by prompt_builder.get_prompt
    messages,         \* act's local `messages`
    client_arg,       \* the message list handed to the client
    response,         \* the Response returned by client.generate
    result            \* what act returned

vars == <<agent, max_icl_history, icl_events, icl_episodes, cached_icl, pc,
          error, calls, icl_prompt, builder_prompt, messages, client_arg,
          response, result>>

-----------------------------------------------------------------------------
(* Bounds *)

MaxEpisodes == 2
MaxEvents == 3
MaxHistory == 2
MaxLen == 5

-----------------------------------------------------------------------------
(* Generic helpers *)

Last(s) == s[Len(s)]

Min(a, b) == IF a < b THEN a ELSE b

Max(a, b) == IF a > b THEN a ELSE b

Range(s) == {s[k] : k \in 1..Len(s)}

BoundedSeq(S, n) == UNION {[1..k -> S] : k \in 0..n}

RECURSIVE Flatten(_)
Flatten(ss) == IF ss = <<>> THEN <<>> ELSE Head(ss) \o Flatten(Tail(ss))

\* Python's s[:n]
PySliceTo(s, n) ==
    IF n >= 0 THEN SubSeq(s, 1, Min(n, Len(s)))
    ELSE SubSeq(s, 1, Max(Len(s) + n, 0))

\* a Python str as a token sequence: the empty string has no tokens
Tok(s) == IF s = "" THEN <<>> ELSE <<s>>

Digits == <<"1", "2", "3", "4", "5", "6", "7", "8", "9">>

\* str(k) inside an f-string
ToStr(k) == Digits[k]

-----------------------------------------------------------------------------
(* Message *)

NoAttachment == "None"

Message(role, content) ==
    [role |-> role, content |-> content, attachment |-> NoAttachment]

-----------------------------------------------------------------------------
(* Inputs *)

Agents == {"naive", "few_shot", "robust_cot"}

\* prompt_builder.system_prompt
SystemPrompt == <<"You are an agent. ", "PLAY", " the game.">>

\* observations handed to update_icl_observation
Observations == { [text |-> [long_term_context |-> "obs"]] }

Actions == {"north"}

\* Python's dict.get(key, default)
DictGet(d, key, default) == IF key \in DOMAIN d THEN d[key] ELSE default

-----------------------------------------------------------------------------
(* FewShotAgent: the ICL episode store *)

StartMarker(k) ==
    Message("user", <<"****** START OF DEMONSTRATION EPISODE ", ToStr(k), " ******">>)

EndMarker(k) ==
    Message("user", <<"****** END OF DEMONSTRATION EPISODE ", ToStr(k), " ******">>)

EventMessage(event) ==
    IF event.type = "icl_observation"
    THEN Message("user", <<"Obesrvation:\n">> \o Tok(event.text))
    ELSE Message("assistant", Tok(event.action))

\* mutant of WrapEpisode: the END marker is numbered as if the episode were
\* already in the store
WrapEpisode_EndNumberedLate(events, episodes) ==
    <<StartMarker(Len(episodes) + 1)>>
        \o [k \in 1..Len(events) |-> EventMessage(events[k])]
        \o <<EndMarker(Len(episodes) + 2)>>

\* the list wrap_episode builds from the event buffer
WrapEpisode(events, episodes) ==
    <<StartMarker(Len(episodes) + 1)>>
        \o [k \in 1..Len(events) |-> EventMessage(events[k])]
        \o <<EndMarker(Len(episodes) + 1)>>

\* str.replace("PLAY", ...) on the system prompt
ReplacePlay(prompt) ==
    [k \in 1..Len(prompt) |->
        IF prompt[k] = "PLAY"
        THEN "First, observe the demonstrations provided and learn from them!"
        ELSE prompt[k]]

icl_instruction == Message("user", ReplacePlay(SystemPrompt))

end_demo_message ==
    Message("user", <<"****** Now it's your turn to play the game! ******">>)

\* mutants of TruncateEpisode
TruncateEpisode_OneMore(icl_episode, max, i) ==
    PySliceTo(icl_episode, max - i + 2) \o <<Last(icl_episode)>>

TruncateEpisode_FromTail(icl_episode, max, i) ==
    <<icl_episode[1]>>
        \o SubSeq(icl_episode, Len(icl_episode) - (max - i), Len(icl_episode))

TruncateEpisode_NoEnd(icl_episode, max, i) ==
    PySliceTo(icl_episode, max - i + 1)

\* icl_episode[: max_icl_history - i + 1] + [icl_episode[-1]]
TruncateEpisode(icl_episode, max, i) ==
    PySliceTo(icl_episode, max - i + 1) \o <<Last(icl_episode)>>

\* the for loop of get_icl_prompt, from episode k on, with running count i
RECURSIVE UnrollEpisodes(_, _, _, _)
UnrollEpisodes(episodes, k, i, max) ==
    IF k > Len(episodes) THEN <<>>
    ELSE LET icl_episode == episodes[k]
             episode_steps == Len(icl_episode) - 2
         IN  IF i + episode_steps <= max
             THEN icl_episode \o UnrollEpisodes(episodes, k + 1, i + episode_steps, max)
             ELSE TruncateEpisode(icl_episode, max, i)

get_icl_prompt(episodes, max) ==
    <<icl_instruction>> \o UnrollEpisodes(episodes, 1, 0, max) \o <<end_demo_message>>

\* the non-marker messages of the sealed episodes, counted
TotalSteps(episodes) == Len(Flatten(episodes)) - 2 * Len(episodes)

-----------------------------------------------------------------------------
(* Response and the two extraction policies *)

ACTION_TAG == "<|ACTION|>"

END_TAG == "<|END|>"

Whitespace == {" ", "\n"}

Letters == {"n"}

\* the characters (and tags) a completion of the structured policy is made of
Alphabet == {ACTION_TAG, END_TAG} \cup Whitespace \cup Letters

NoneValue == <<"<None>">>

LLMResponse(completion, reasoning) ==
    [model_id |-> "model", completion |-> completion, stop_reason |-> "stop",
     input_tokens |-> 10, output_tokens |-> 5, reasoning |-> reasoning]

\* what re.sub(r"[^a-zA-Z\s:]", "", .) leaves of one token
FilterToken(t) ==
    IF t = ACTION_TAG THEN <<"ACTION">>
    ELSE IF t = END_TAG THEN <<"END">>
    ELSE IF t \in Letters \cup Whitespace \cup {":"} THEN <<t>>
    ELSE <<>>

filter_letters(input_string) ==
    Flatten([k \in 1..Len(input_string) |-> FilterToken(input_string[k])])

\* NaiveAgent / FewShotAgent._extract_final_answer
extract_plain(answer) ==
    [answer EXCEPT !.completion = filter_letters(answer.completion)]

\* the lazy group (.*?) followed by the literal END tag, tried from position j:
\* the position of the END tag that closes the match, 0 when there is none
RECURSIVE LazyUntilEnd(_, _)
LazyUntilEnd(text, j) ==
    IF j > Len(text) THEN 0
    ELSE IF text[j] = END_TAG THEN j
    ELSE LazyUntilEnd(text, j + 1)

\* the pattern matched at start position s: <<s, e>> with e the position of
\* the closing END tag, <<>> when the pattern does not match at s
MatchAt(text, s) ==
    IF text[s] # ACTION_TAG THEN <<>>
    ELSE LET e == LazyUntilEnd(text, s + 1)
         IN  IF e = 0 THEN <<>> ELSE <<s, e>>

\* mutant of re_search: the group is greedy, it runs to the last END tag
RECURSIVE re_search_Greedy(_, _)
re_search_Greedy(text, s) ==
    IF s > Len(text) THEN <<>>
    ELSE IF MatchAt(text, s) # <<>>
         THEN <<s, CHOOSE e \in s + 1..Len(text) :
                      /\ text[e] = END_TAG
                      /\ \A f \in e + 1..Len(text) : text[f] # END_TAG>>
         ELSE re_search_Greedy(text, s + 1)

\* re.search: the leftmost start position at which the pattern matches
RECURSIVE re_search(_, _)
re_search(text, s) ==
    IF s > Len(text) THEN <<>>
    ELSE IF MatchAt(text, s) # <<>> THEN MatchAt(text, s)
    ELSE re_search(text, s + 1)

RECURSIVE lstrip(_)
lstrip(s) ==
    IF s # <<>> /\ Head(s) \in Whitespace THEN lstrip(Tail(s)) ELSE s

RECURSIVE rstrip(_)
rstrip(s) ==
    IF s # <<>> /\ Last(s) \in Whitespace THEN rstrip(SubSeq(s, 1, Len(s) - 1)) ELSE s

\* str.strip()
strip(s) == rstrip(lstrip(s))

FailedAction == <<"Failed to obtain a valid action from the reasoning.">>

\* RobustCoTAgent._extract_final_answer
extract_final_answer(reasoning) ==
    LET completion_text == reasoning.completion
        match == re_search(completion_text, 1)
        extracted_action ==
            IF match # <<>>
            THEN strip(SubSeq(completion_text, match[1] + 1, match[2] - 1))
            ELSE FailedAction
    IN  [reasoning EXCEPT !.reasoning = reasoning.completion,
                          !.completion = extracted_action]

\* the Responses client.generate may return to each agent
Responses(a) ==
    IF a = "robust_cot"
    THEN {LLMResponse(completion, reasoning) :
              completion \in BoundedSeq(Alphabet, MaxLen),
              reasoning \in {NoneValue, <<"t">>}}
    ELSE {LLMResponse(<<"n", "7", ":">>, NoneValue), LLMResponse(<<"7">>, <<"t">>)}

-----------------------------------------------------------------------------
(* act: prompt assembly *)

\* values of prev_action: None, the empty string, an action
PrevActions == {"None", "", "north"}

\* Python truthiness of prev_action
Truthy(prev_action) == prev_action \notin {"None", ""}

\* the message lists prompt_builder.get_prompt may return
BuilderPrompts ==
    { <<>>,
      <<Message("user", <<"Observation">>)>>,
      <<Message("user", <<"Observation">>), Message("assistant", <<"north">>)>> }

naive_instruction ==
    <<"\n\n",
      "You always have to output one of the above actions at a time and no other text. You always have to output an action until the episode terminates.",
      " /no_think">>

cot_instructions ==
    <<"\n\n", "First, think about the best course of action. ... <|ACTION|>YOUR_CHOSEN_ACTION<|END|> ...",
      " /no_think">>

\* mutant of BuilderCalls: the observation is fed before the previous action
BuilderCalls_ObservationFirst(prev_action) ==
    <<"update_observation">>
        \o (IF Truthy(prev_action) THEN <<"update_action">> ELSE <<>>)

\* the builder calls act opens with
BuilderCalls(prev_action) ==
    (IF Truthy(prev_action) THEN <<"update_action">> ELSE <<>>)
        \o <<"update_observation">>

\* mutant of ActIclPrompt: the cached flag is ignored
ActIclPrompt_IgnoreCache(a, cached, episodes, max) ==
    IF a = "few_shot" THEN get_icl_prompt(episodes, max) ELSE <<>>

\* the messages act starts from, before the builder's are added
ActIclPrompt(a, cached, episodes, max) ==
    IF a = "few_shot" /\ ~cached THEN get_icl_prompt(episodes, max) ELSE <<>>

\* messages[-1].content += instruction
AppendToLast(msgs, instruction) ==
    [msgs EXCEPT ![Len(msgs)].content = @ \o instruction]

\* whether act appends its instruction to the last message
Appends(a, msgs) ==
    IF a = "robust_cot" THEN TRUE
    ELSE msgs # <<>> /\ Last(msgs).role = "user"

Instruction(a) == IF a = "robust_cot" THEN cot_instructions ELSE naive_instruction

\* mutant of cache_icl_prompt: every sealed episode is pushed whole
cache_icl_prompt_Unwindowed ==
    get_icl_prompt(icl_episodes, TotalSteps(icl_episodes))

\* the argument cache_icl hands to client.cache_icl_demo
cache_icl_prompt == get_icl_prompt(icl_episodes, max_icl_history)

-----------------------------------------------------------------------------
(* The state machine *)

Init ==
    /\ agent \in Agents
    /\ max_icl_history \in (IF agent = "few_shot" THEN 0..MaxHistory ELSE {0})
    /\ icl_events = <<>>
    /\ icl_episodes = <<>>
    /\ cached_icl = FALSE
    /\ pc = "idle"
    /\ error = "none"
    /\ calls = <<>>
    /\ icl_prompt = <<>>
    /\ builder_prompt = <<>>
    /\ messages = <<>>
    /\ client_arg = <<>>
    /\ response = <<>>
    /\ result = <<>>

store == <<icl_events, icl_episodes, cached_icl>>

frame == <<pc, error, calls, icl_prompt, builder_prompt, messages, client_arg,
           response, result>>

\* events recorded so far, buffered or sealed
Recorded == Len(icl_events) + TotalSteps(icl_episodes)

update_icl_observation(obs) ==
    /\ agent = "few_shot" /\ pc = "idle"
    /\ Recorded < MaxEvents
    /\ icl_events' = Append(icl_events,
           [type |-> "icl_observation",
            text |-> DictGet(obs.text, "long_term_context", "")])
    /\ UNCHANGED <<agent, max_icl_history, icl_episodes, cached_icl, frame>>

update_icl_action(action) ==
    /\ agent = "few_shot" /\ pc = "idle"
    /\ Recorded < MaxEvents
    /\ icl_events' = Append(icl_events, [type |-> "icl_action", action |-> action])
    /\ UNCHANGED <<agent, max_icl_history, icl_episodes, cached_icl, frame>>

wrap_episode ==
    /\ agent = "few_shot" /\ pc = "idle"
    /\ Len(icl_episodes) < MaxEpisodes
    /\ icl_episodes' = Append(icl_episodes, WrapEpisode(icl_events, icl_episodes))
    /\ icl_events' = <<>>
    /\ UNCHANGED <<agent, max_icl_history, cached_icl, frame>>

\* an exception leaves the call: its locals are gone, the caller gets err
Raises(err) ==
    /\ pc' = "raised"
    /\ error' = err
    /\ icl_prompt' = <<>>
    /\ builder_prompt' = <<>>
    /\ messages' = <<>>
    /\ client_arg' = <<>>
    /\ response' = <<>>
    /\ result' = <<>>

\* cache_icl; client.cache_icl_demo returns or raises
cache_icl ==
    /\ agent = "few_shot" /\ pc = "idle"
    /\ calls' = <<"get_icl_prompt", "cache_icl_demo">>
    /\ \E ok \in BOOLEAN :
         IF ok
         THEN /\ icl_prompt' = cache_icl_prompt
              /\ client_arg' = cache_icl_prompt
              /\ cached_icl' = TRUE
              /\ pc' = "cache_done"
              /\ UNCHANGED <<error, builder_prompt, messages, response, result>>
         ELSE /\ Raises("ClientError")
              /\ UNCHANGED cached_icl
    /\ UNCHANGED <<agent, max_icl_history, icl_events, icl_episodes>>

\* act's local `messages` before the instruction append
Assembled(prompt) ==
    ActIclPrompt(agent, cached_icl, icl_episodes, max_icl_history) \o prompt

\* act's local `messages` after the instruction append
Instructed(prompt) ==
    IF Appends(agent, Assembled(prompt))
    THEN AppendToLast(Assembled(prompt), Instruction(agent))
    ELSE Assembled(prompt)

\* the debug log is written by NaiveAgent and FewShotAgent only
Logs(a) == a # "robust_cot"

\* the calls act makes up to the assembly of `messages`
CallsToPrompt(prev_action) ==
    BuilderCalls(prev_action)
        \o (IF agent = "few_shot" /\ ~cached_icl THEN <<"get_icl_prompt">> ELSE <<>>)
        \o <<"get_prompt">>

\* ... up to the log of the messages
CallsToLog(prev_action, prompt) ==
    CallsToPrompt(prev_action)
        \o (IF Appends(agent, Assembled(prompt)) THEN <<"append_instruction">> ELSE <<>>)
        \o (IF Logs(agent) THEN <<"log_messages">> ELSE <<>>)

\* ... up to the log of the response
CallsToResponse(prev_action, prompt) ==
    CallsToLog(prev_action, prompt)
        \o <<"generate">>
        \o (IF Logs(agent) THEN <<"log_response">> ELSE <<>>)

\* messages[-1] of an empty list
IndexError(prompt) == agent = "robust_cot" /\ Assembled(prompt) = <<>>

\* act: messages[-1] raises IndexError
ActAppendRaises(prev_action, prompt) ==
    /\ pc = "idle"
    /\ IndexError(prompt)
    /\ calls' = CallsToPrompt(prev_action)
    /\ Raises("IndexError")
    /\ UNCHANGED <<agent, max_icl_history, store>>

\* act: mkdir, open or write of the log of the messages raises
ActLogMessagesRaises(prev_action, prompt) ==
    /\ pc = "idle"
    /\ ~IndexError(prompt)
    /\ Logs(agent)
    /\ calls' = CallsToLog(prev_action, prompt)
    /\ Raises("OSError")
    /\ UNCHANGED <<agent, max_icl_history, store>>

\* act: client.generate raises
ActGenerateRaises(prev_action, prompt) ==
    /\ pc = "idle"
    /\ ~IndexError(prompt)
    /\ calls' = CallsToLog(prev_action, prompt) \o <<"generate">>
    /\ Raises("ClientError")
    /\ UNCHANGED <<agent, max_icl_history, store>>

\* act: client.generate returns r, open or write of the log of the response raises
ActLogResponseRaises(prev_action, prompt, r) ==
    /\ pc = "idle"
    /\ ~IndexError(prompt)
    /\ Logs(agent)
    /\ calls' = CallsToResponse(prev_action, prompt)
    /\ Raises("OSError")
    /\ UNCHANGED <<agent, max_icl_history, store>>

\* act: client.generate returns r and act returns
ActReturns(prev_action, prompt, r) ==
    /\ pc = "idle"
    /\ ~IndexError(prompt)
    /\ calls' = CallsToResponse(prev_action, prompt) \o <<"extract_final_answer">>
    /\ icl_prompt' = ActIclPrompt(agent, cached_icl, icl_episodes, max_icl_history)
    /\ builder_prompt' = prompt
    /\ messages' = Instructed(prompt)
    /\ client_arg' = Instructed(prompt)
    /\ response' = r
    /\ result' = IF agent = "robust_cot"
                 THEN <<extract_final_answer(r), r.completion, Instructed(prompt)>>
                 ELSE <<extract_plain(r)>>
    /\ pc' = "returned"
    /\ UNCHANGED <<agent, max_icl_history, store, error>>

\* the caller has the result or the exception; the call's frame is gone
Return ==
    /\ pc \in {"returned", "raised", "cache_done"}
    /\ pc' = "idle"
    /\ error' = "none"
    /\ calls' = <<>>
    /\ icl_prompt' = <<>>
    /\ builder_prompt' = <<>>
    /\ messages' = <<>>
    /\ client_arg' = <<>>
    /\ response' = <<>>
    /\ result' = <<>>
    /\ UNCHANGED <<agent, max_icl_history, store>>

ActInputs == PrevActions \X BuilderPrompts

\* one call of act(obs, prev_action), with each of its outcomes
act ==
    /\ pc = "idle"
    /\ \E in \in ActInputs :
         \/ ActAppendRaises(in[1], in[2])
         \/ ActLogMessagesRaises(in[1], in[2])
         \/ ActGenerateRaises(in[1], in[2])
         \/ \E r \in Responses(agent) : ActLogResponseRaises(in[1], in[2], r)
         \/ \E r \in Responses(agent) : ActReturns(in[1], in[2], r)

Next ==
    \/ \E obs \in Observations : update_icl_observation(obs)
    \/ \E action \in Actions : update_icl_action(action)
    \/ wrap_episode
    \/ cache_icl
    \/ act
    \/ Return

Spec == Init /\ [][Next]_vars

-----------------------------------------------------------------------------
(* Vocabulary of the properties *)

IsStart(m) ==
    /\ m.role = "user" /\ Len(m.content) = 3
    /\ m.content[1] = "****** START OF DEMONSTRATION EPISODE "

IsEnd(m) ==
    /\ m.role = "user" /\ Len(m.content) = 3
    /\ m.content[1] = "****** END OF DEMONSTRATION EPISODE "

IsMarker(m) == IsStart(m) \/ IsEnd(m)

IsStep(m) == ~IsMarker(m)

\* the non-marker messages of a list, in order
Steps(msgs) == SelectSeq(msgs, IsStep)

\* an ICL prompt without its leading instruction and its closing message
Body(prompt) == SubSeq(prompt, 2, Len(prompt) - 1)

IsPrefix(s, t) == Len(s) <= Len(t) /\ s = SubSeq(t, 1, Len(s))

\* the non-marker messages of all sealed episodes, in sealing order
AllSteps == Steps(Flatten(icl_episodes))

\* the windowed prompt of the store as it is now
Windowed == get_icl_prompt(icl_episodes, max_icl_history)

\* get_icl_prompt has run in the call that is in progress
PromptBuilt == pc \in {"returned", "cache_done"} /\ icl_prompt # <<>>

\* C1: the windowed ICL prompt holds at most max_icl_history non-marker
\* episode messages; instruction, closing message and markers do not count.
C1_WindowingBound ==
    /\ Len(Steps(Body(Windowed))) <= max_icl_history
    /\ PromptBuilt => Len(Steps(Body(icl_prompt))) <= max_icl_history

\* a prompt was built from a store over budget, after one whole episode
C1_Witness ==
    /\ PromptBuilt
    /\ Len(AllSteps) > max_icl_history
    /\ Len(icl_episodes) >= 2
    /\ Len(icl_episodes[1]) = 3
    /\ Len(Steps(Body(icl_prompt))) = 2

\* C2: the non-marker messages of the windowed prompt are, in order, a prefix
\* of the concatenation of all sealed episodes' non-marker messages.
C2_PrefixPreservation ==
    /\ IsPrefix(Steps(Body(Windowed)), AllSteps)
    /\ PromptBuilt => IsPrefix(Steps(Body(icl_prompt)), AllSteps)

\* an episode of two different messages was cut to its first message
C2_Witness ==
    /\ PromptBuilt
    /\ max_icl_history = 1
    /\ Len(icl_episodes) >= 1
    /\ Len(icl_episodes[1]) = 4
    /\ icl_episodes[1][2] # icl_episodes[1][3]
    /\ Steps(Body(icl_prompt)) = <<icl_episodes[1][2]>>

\* the number of START markers among the first p messages
RECURSIVE StartsUpTo(_, _)
StartsUpTo(msgs, p) ==
    IF p = 0 THEN 0
    ELSE StartsUpTo(msgs, p - 1) + (IF IsStart(msgs[p]) THEN 1 ELSE 0)

\* every episode in body opens with its own START and closes with its own END
WellFramed(body) ==
    /\ body # <<>> => IsStart(body[1]) /\ IsEnd(Last(body))
    /\ \A p \in 1..Len(body) :
         /\ IsStart(body[p]) =>
              LET k == StartsUpTo(body, p)
              IN  /\ k <= Len(icl_episodes)
                  /\ body[p] = icl_episodes[k][1]
                  /\ p > 1 => IsEnd(body[p - 1])
                  /\ \E q \in p + 1..Len(body) :
                       /\ body[q] = Last(icl_episodes[k])
                       /\ IsEnd(body[q])
                       /\ \A r \in p + 1..q - 1 : IsStep(body[r])
         /\ IsEnd(body[p]) => p = Len(body) \/ IsStart(body[p + 1])

\* C3: every episode that contributes to the windowed prompt, whole or
\* truncated, starts there with its START marker and ends with its END marker.
C3_MarkerInvariant ==
    /\ WellFramed(Body(Windowed))
    /\ PromptBuilt => WellFramed(Body(icl_prompt))

\* a prompt whose last episode was truncated and still ends with its END
C3_Witness ==
    /\ PromptBuilt
    /\ Len(icl_episodes) >= 2
    /\ Len(AllSteps) > max_icl_history
    /\ Len(Steps(Body(icl_prompt))) >= 1
    /\ Body(icl_prompt) # Flatten(icl_episodes)
    /\ Last(Body(icl_prompt)) = Last(icl_episodes[2])

\* the messages act assembled, before the instruction append
BeforeAppend == icl_prompt \o builder_prompt

\* C4: in each variant, when the last assembled message has role assistant,
\* the instruction append leaves its content unchanged.
C4_TrailingInstructionGuard ==
    (/\ pc = "returned"
     /\ BeforeAppend # <<>>
     /\ Last(BeforeAppend).role = "assistant")
        => Last(messages).content = Last(BeforeAppend).content

HasMatch(text) ==
    \E i, j \in 1..Len(text) : i < j /\ text[i] = ACTION_TAG /\ text[j] = END_TAG

\* the first ACTION tag that some END tag follows
FirstAction(text) ==
    CHOOSE i \in 1..Len(text) :
        /\ text[i] = ACTION_TAG
        /\ \E j \in i + 1..Len(text) : text[j] = END_TAG
        /\ \A h \in 1..i - 1 :
               ~(text[h] = ACTION_TAG /\ \E j \in h + 1..Len(text) : text[j] = END_TAG)

\* the first END tag after position i
FirstEndAfter(text, i) ==
    CHOOSE j \in i + 1..Len(text) :
        text[j] = END_TAG /\ \A h \in i + 1..j - 1 : text[h] # END_TAG

\* t is s without its leading and trailing whitespace
IsTrimOf(t, s) ==
    \E a \in 1..Len(s) + 1, b \in 0..Len(s) :
        /\ t = SubSeq(s, a, b)
        /\ \A k \in 1..a - 1 : s[k] \in Whitespace
        /\ \A k \in b + 1..Len(s) : s[k] \in Whitespace
        /\ t # <<>> => t[1] \notin Whitespace /\ Last(t) \notin Whitespace

UpToInstruction(sent, base) ==
    /\ Len(sent) = Len(base)
    /\ \A k \in 1..Len(base) - 1 : sent[k] = base[k]
    /\ base # <<>> =>
         /\ Last(sent).role = Last(base).role
         /\ Last(sent).content \in
                {Last(base).content, Last(base).content \o naive_instruction}

\* C6: an act of FewShotAgent made while cache_icl has not completed sends the
\* windowed ICL prompt followed by the builder's messages, one made after a
\* completed cache_icl sends the builder's messages only; the flag is set by a
\* completed cache_icl and by nothing else, and no operation clears it.
C6_StickyCacheFlag ==
    /\ [][cached_icl => cached_icl']_vars
    /\ [][pc' = "cache_done" => cached_icl']_vars
    /\ [][(~cached_icl /\ cached_icl') => pc' = "cache_done"]_vars
    /\ []((pc = "returned" /\ agent = "few_shot") =>
            UpToInstruction(client_arg,
                IF cached_icl THEN builder_prompt ELSE Windowed \o builder_prompt))

\* an act after cache_icl, with sealed episodes in the store
C6_Witness ==
    /\ pc = "returned" /\ agent = "few_shot"
    /\ cached_icl
    /\ Len(AllSteps) >= 1
    /\ Len(client_arg) = 1

\* C7 as stated: cache_icl hands the client every message of every sealed
\* episode, framed by the instruction and the closing message.
C7_PushesEveryEpisode ==
    pc = "cache_done" =>
        /\ client_arg[1] = icl_instruction
        /\ Last(client_arg) = end_demo_message
        /\ Body(client_arg) = Flatten(icl_episodes)

\* C7, amended: cache_icl hands the client the windowed prompt: framed by the
\* instruction and the closing message, its non-marker messages are the first
\* min(max_icl_history, total) non-marker messages of the sealed episodes, and
\* it holds every message of every episode when the total fits the budget.
C7_PushesWindowedPrompt ==
    pc = "cache_done" =>
        /\ client_arg[1] = icl_instruction
        /\ Last(client_arg) = end_demo_message
        /\ Steps(Body(client_arg))
             = SubSeq(AllSteps, 1, Min(max_icl_history, Len(AllSteps)))
        /\ WellFramed(Body(client_arg))
        /\ Len(AllSteps) <= max_icl_history
             => Body(client_arg) = Flatten(icl_episodes)

\* cache_icl ran on a store over budget
C7_Witness ==
    /\ pc = "cache_done"
    /\ max_icl_history >= 1
    /\ Len(AllSteps) > max_icl_history
    /\ Len(Steps(Body(client_arg))) = max_icl_history

\* position of the first call named c in the call log, 0 when absent
Pos(c) ==
    IF c \in Range(calls)
    THEN CHOOSE k \in 1..Len(calls) : calls[k] = c /\ \A h \in 1..k - 1 : calls[h] # c
    ELSE 0

Count(c) == Cardinality({k \in 1..Len(calls) : calls[k] = c})

Before(c, d) == (Pos(c) > 0 /\ Pos(d) > 0) => Pos(c) < Pos(d)

\* C8: act calls update_action (if at all) before update_observation, that
\* before get_prompt, appends the instruction after get_prompt and before the
\* transmission, calls client.generate exactly once before the extraction; when
\* generate fails the failure reaches the caller, generate is not called again
\* and nothing is returned.
C8_OneCallInOrder ==
    /\ Before("update_action", "update_observation")
    /\ Before("update_observation", "get_prompt")
    /\ Before("get_prompt", "append_instruction")
    /\ Before("append_instruction", "generate")
    /\ Before("generate", "extract_final_answer")
    /\ Count("generate") <= 1
    /\ "extract_final_answer" \in Range(calls) =>
         /\ Count("generate") = 1
         /\ Count("update_observation") = 1
         /\ Count("get_prompt") = 1
    /\ pc = "returned" => Last(calls) = "extract_final_answer" /\ result # <<>>
    /\ (error = "ClientError" /\ "generate" \in Range(calls)) =>
         /\ pc = "raised"
         /\ result = <<>>
         /\ Last(calls) = "generate" /\ Count("generate") = 1

\* client.generate failed in an act that had a previous action
C8_Witness ==
    /\ pc = "raised" /\ error = "ClientError"
    /\ calls[1] = "update_action"
    /\ "append_instruction" \in Range(calls)
    /\ Last(calls) = "generate"

\* C9: a failure of the debug log does not abort act.
C9_LoggingNonFatal ==
    ("log_messages" \in Range(calls) \/ "log_response" \in Range(calls))
        => ~(pc = "raised" /\ error = "OSError")

\* C10: the completion _extract_final_answer returns is never empty.
C10_NeverEmpty ==
    (pc = "returned" /\ agent = "robust_cot") => result[1].completion # <<>>

\* the message wrap_episode is to make of one buffered event
SealedMessage(event, m) ==
    /\ m.attachment = "None"
    /\ event.type = "icl_observation" =>
         m.role = "user" /\ m.content = <<"Obesrvation:\n", event.text>>
    /\ event.type = "icl_action" =>
         m.role = "assistant" /\ m.content = <<event.action>>

\* C11: whatever the buffered events, wrap_episode raises nothing and appends
\* to the store one episode: the START marker numbered k for the k-th sealed
\* episode, one message per buffered event in buffer order (observation: role
\* user, the fixed prefix then the text; action: role assistant, the text),
\* the END marker numbered k; the buffer is then empty and the episodes sealed
\* before are unchanged.  Nothing else changes the store.
C11_SealingAnEpisode ==
    [][icl_episodes' # icl_episodes =>
         LET k == Len(icl_episodes) + 1
             ep == icl_episodes'[k]
         IN  /\ Len(icl_episodes') = k
             /\ SubSeq(icl_episodes', 1, k - 1) = icl_episodes
             /\ Len(ep) = Len(icl_events) + 2
             /\ ep[1].role = "user"
             /\ ep[1].content
                  = <<"****** START OF DEMONSTRATION EPISODE ", ToStr(k), " ******">>
             /\ Last(ep).role = "user"
             /\ Last(ep).content
                  = <<"****** END OF DEMONSTRATION EPISODE ", ToStr(k), " ******">>
             /\ \A j \in 1..Len(icl_events) : SealedMessage(icl_events[j], ep[j + 1])
             /\ icl_events' = <<>>
             /\ pc' = "idle" /\ error' = "none"]_vars

\* a second episode was sealed from an action followed by an observation,
\* after a first episode of one unmatched event
C11_Witness ==
    /\ Len(icl_episodes) = 2
    /\ icl_events = <<>>
    /\ Len(icl_episodes[1]) = 3
    /\ Len(icl_episodes[2]) = 4
    /\ icl_episodes[2][2].role = "assistant"
    /\ icl_episodes[2][3].role = "user"
    /\ icl_episodes[2][4].content
         = <<"****** END OF DEMONSTRATION EPISODE ", "2", " ******">>

====
